---- MODULE Spec2Model ----
(***************************************************************************)
(* Social-card generation pipeline of scripts/generate_social_cards.py:    *)
(* photo cache/fetcher, text wrapping, resilient text drawing, card        *)
(* composition and the batch driver generate_all_cards.                    *)
(*                                                                         *)
(* Strings are sequences of one-character tokens.  Non-ASCII characters    *)
(* are the tokens "EMOJI" (an emoji code point), "ACUTE" (a combining      *)
(* mark) and "BULLET" (U+2022, the name separator).                        *)
(***************************************************************************)
EXTENDS Integers, Sequences, FiniteSets, TLC

VARIABLES wrapCall, drawCall, sizeCall, cache, fetchCall, prevFetch, tampered,
          env, sessions, pc, idx, photoK, photos, card, files, attempted,
          outcomes, defaultCalls

pureVars  == <<wrapCall, drawCall, sizeCall>>
fetchVars == <<cache, fetchCall, prevFetch, tampered>>
runVars   == <<env, sessions, pc, idx, photoK, photos, card, files, attempted,
               outcomes, defaultCalls>>
vars      == <<wrapCall, drawCall, sizeCall, cache, fetchCall, prevFetch, tampered,
               env, sessions, pc, idx, photoK, photos, card, files, attempted,
               outcomes, defaultCalls>>

----------------------------------------------------------------------------
(* Bounds of the model *)

MaxWrapLen == 6
MaxWidth == 4
MaxDrawLen == 3
MaxHeight == 700
MaxSessions == 3
MaxIds == 4
MaxTitleWords == 7

----------------------------------------------------------------------------
(* Module constants of generate_social_cards.py *)

CARD_WIDTH == 1200
CARD_HEIGHT == 630
TextColor == <<"#", "f", "f", "f", "f", "f", "f">>

----------------------------------------------------------------------------
(* Generic sequence helpers *)

Min(a, b) == IF a <= b THEN a ELSE b

Take(s, n) == SubSeq(s, 1, Min(n, Len(s)))

RECURSIVE Join(_, _)
Join(sep, ss) ==
    IF ss = <<>> THEN <<>>
    ELSE IF Len(ss) = 1 THEN ss[1]
    ELSE ss[1] \o sep \o Join(sep, Tail(ss))

SeqsUpTo(S, n) == UNION {[1..k -> S] : k \in 0..n}

----------------------------------------------------------------------------
(* Character classes: string.ascii_letters, digits, whitespace, punctuation *)

AsciiLetters == {"a", "b"}
AsciiDigits == {"1"}
Whitespace == {" ", "TAB"}
Punctuation == {"!", "#"}
NonAscii == {"EMOJI", "ACUTE", "BULLET"}

_is_ok(char) ==
    \/ char \in AsciiLetters
    \/ char \in AsciiDigits
    \/ char \in Whitespace
    \/ char \in Punctuation

_clean_text(text) == SelectSeq(text, _is_ok)

(* str.split(): maximal runs of non-whitespace characters, in order *)
RECURSIVE SplitFrom(_, _, _)
SplitFrom(text, i, cur) ==
    IF i > Len(text)
    THEN IF cur = <<>> THEN <<>> ELSE <<cur>>
    ELSE IF text[i] \in Whitespace
         THEN IF cur = <<>> THEN SplitFrom(text, i + 1, <<>>)
              ELSE <<cur>> \o SplitFrom(text, i + 1, <<>>)
         ELSE SplitFrom(text, i + 1, Append(cur, text[i]))

Split(text) == SplitFrom(text, 1, <<>>)

(* str.strip(): drop leading and trailing whitespace *)
RECURSIVE LStrip(_)
LStrip(s) == IF s # <<>> /\ Head(s) \in Whitespace THEN LStrip(Tail(s)) ELSE s

RECURSIVE RStrip(_)
RStrip(s) ==
    IF s # <<>> /\ s[Len(s)] \in Whitespace
    THEN RStrip(SubSeq(s, 1, Len(s) - 1)) ELSE s

Strip(s) == RStrip(LStrip(s))

----------------------------------------------------------------------------
(* Font metrics: a font is its advance in pixels; the glyph "b" is double  *)
(* width.  font.getbbox(line): bbox[2] - bbox[0].                          *)

GlyphAdvance(font, c) == IF c = "b" THEN 2 * font ELSE font

RECURSIVE TextWidth(_, _)
TextWidth(font, line) ==
    IF line = <<>> THEN 0
    ELSE GlyphAdvance(font, Head(line)) + TextWidth(font, Tail(line))

----------------------------------------------------------------------------
(* CardGenerator._wrap_text *)

Fits_WordOnly(font, current_line, word, max_width) ==
    TextWidth(font, word) <= max_width

Fits(font, current_line, word, max_width) ==
    TextWidth(font, Join(<<" ">>, Append(current_line, word))) <= max_width

RECURSIVE WrapWords(_, _, _, _)
WrapWords(words, font, max_width, current_line) ==
    IF words = <<>>
    THEN IF current_line # <<>> THEN <<Join(<<" ">>, current_line)>> ELSE <<>>
    ELSE LET word == Head(words) IN
         IF Fits(font, current_line, word, max_width)
         THEN WrapWords(Tail(words), font, max_width, Append(current_line, word))
         ELSE (IF current_line # <<>>
               THEN <<Join(<<" ">>, current_line)>> ELSE <<>>)
              \o WrapWords(Tail(words), font, max_width, <<word>>)

_wrap_text(text, font, max_width) == WrapWords(Split(text), font, max_width, <<>>)

----------------------------------------------------------------------------
(* CardGenerator._hex_to_rgb.  int(s, 16): surrounding whitespace is     *)
(* dropped, then an optional sign, an optional 0x prefix, then hex digits  *)
(* of either case with single underscores between them; anything else,     *)
(* the empty slice included, raises ValueError.                             *)

HexDigits == <<"0", "1", "2", "3", "4", "5", "6", "7", "8", "9",
               "a", "b", "c", "d", "e", "f">>
HexUpper == <<"A", "B", "C", "D", "E", "F">>

HexChars ==
    {HexDigits[k] : k \in 1..Len(HexDigits)} \cup {HexUpper[k] : k \in 1..Len(HexUpper)}

HexTable ==
    [c \in HexChars |->
        IF \E k \in 1..Len(HexUpper) : HexUpper[k] = c
        THEN 9 + CHOOSE k \in 1..Len(HexUpper) : HexUpper[k] = c
        ELSE (CHOOSE k \in 1..Len(HexDigits) : HexDigits[k] = c) - 1]

HexValue(c) == IF c \in HexChars THEN HexTable[c] ELSE -1

(* hex_color[i : i + 2] for a 0-based i *)
HexSlice(h, i) == SubSeq(h, i + 1, Min(i + 2, Len(h)))

IntSign(s) == LET t == Strip(s) IN IF t # <<>> /\ Head(t) = "-" THEN -1 ELSE 1

IntUnsigned(s) ==
    LET t == Strip(s) IN IF t # <<>> /\ Head(t) \in {"+", "-"} THEN Tail(t) ELSE t

(* The digits after the optional 0x prefix (and one underscore after it) *)
IntDigits(s) ==
    LET u == IntUnsigned(s)
    IN IF Len(u) >= 2 /\ u[1] = "0" /\ u[2] \in {"x", "X"}
       THEN LET r == SubSeq(u, 3, Len(u))
            IN IF r # <<>> /\ Head(r) = "_" THEN Tail(r) ELSE r
       ELSE u

IntParseRaises(s) ==
    LET d == IntDigits(s)
    IN \/ d = <<>>
       \/ d[1] = "_"
       \/ d[Len(d)] = "_"
       \/ \E k \in 1..Len(d) : d[k] # "_" /\ HexValue(d[k]) < 0
       \/ \E k \in 1..(Len(d) - 1) : d[k] = "_" /\ d[k + 1] = "_"

RECURSIVE HexDigitsValue(_)
HexDigitsValue(d) ==
    IF d = <<>> THEN 0
    ELSE 16 * HexDigitsValue(SubSeq(d, 1, Len(d) - 1)) + HexValue(d[Len(d)])

IntParseValue(s) ==
    IntSign(s) * HexDigitsValue(SelectSeq(IntDigits(s), LAMBDA c : c # "_"))

(* A non-empty run of hex digits needs none of the grammar above *)
PlainHex(s) == s # <<>> /\ \A k \in 1..Len(s) : s[k] \in HexChars

IntBase16Raises(s) == IF PlainHex(s) THEN FALSE ELSE IntParseRaises(s)

IntBase16(s) == IF PlainHex(s) THEN HexDigitsValue(s) ELSE IntParseValue(s)

(* hex_color without a leading "#" *)
HexBody(hex_color) ==
    IF hex_color # <<>> /\ Head(hex_color) = "#" THEN Tail(hex_color) ELSE hex_color

(* One of the three int(...) calls raises *)
HexToRgbRaises(hex_color) ==
    \E i \in {0, 2, 4} : IntBase16Raises(HexSlice(HexBody(hex_color), i))

_hex_to_rgb(hex_color) ==
    IF HexToRgbRaises(hex_color)
    THEN [raised |-> TRUE, rgb |-> <<>>]
    ELSE [raised |-> FALSE,
          rgb |-> [k \in 1..3 |-> IntBase16(HexSlice(HexBody(hex_color), 2 * (k - 1)))]]

----------------------------------------------------------------------------
(* CardGenerator._draw_text_smart.  A fill is a channel triple or a        *)
(* string; failing is the set of tiers whose draw.text call raises.        *)

Tiers == 1..5

(* re.sub(r'[^\w\s\-.,!?:;()[\]{}"\'\\/]', " ", text) *)
Tier3Keeps(c) == c \in AsciiLetters \cup AsciiDigits \cup Whitespace \cup {"!"}

Tier3Sub(text) == [k \in 1..Len(text) |-> IF Tier3Keeps(text[k]) THEN text[k] ELSE " "]

(* re.sub(r"\s+", " ", text) *)
RECURSIVE CollapseSpaces(_)
CollapseSpaces(text) ==
    IF text = <<>> THEN <<>>
    ELSE IF Head(text) \in Whitespace
         THEN <<" ">> \o CollapseSpaces(LStrip(text))
         ELSE <<Head(text)>> \o CollapseSpaces(Tail(text))

(* text.encode("ascii", "ignore").decode("ascii") *)
IsAscii(c) == c \notin NonAscii

AsciiIgnore(text) == SelectSeq(text, IsAscii)

PlaceholderSpecialChars == <<"[Content with special characters]">>
PlaceholderSpecial == <<"[Special content]">>
PlaceholderText == <<"[Text]">>

Tier3Text(text) ==
    LET text_only == Strip(CollapseSpaces(Tier3Sub(text)))
    IN IF text_only # <<>> THEN text_only ELSE PlaceholderSpecialChars

Tier4Text(text) ==
    LET ascii_text == Strip(AsciiIgnore(text))
    IN IF ascii_text # <<>> THEN ascii_text ELSE PlaceholderSpecial

Attempt(tier, text, embedded) ==
    [tier |-> tier, text |-> text, embedded_color |-> embedded]

DrawOutcome(raised, attempts) ==
    [raised |-> raised, attempts |-> attempts,
     drawn |-> IF raised \/ attempts = <<>> THEN 0 ELSE attempts[Len(attempts)].tier]

Cascade_NoStop(text, failing) ==
    DrawOutcome(5 \in failing,
                <<Attempt(1, text, TRUE), Attempt(2, text, FALSE),
                  Attempt(3, Tier3Text(text), FALSE), Attempt(4, Tier4Text(text), FALSE),
                  Attempt(5, PlaceholderText, FALSE)>>)

Cascade(text, failing) ==
    LET a1 == Attempt(1, text, TRUE)
        a2 == Attempt(2, text, FALSE)
        a3 == Attempt(3, Tier3Text(text), FALSE)
        a4 == Attempt(4, Tier4Text(text), FALSE)
        a5 == Attempt(5, PlaceholderText, FALSE)
    IN IF 1 \notin failing THEN DrawOutcome(FALSE, <<a1>>)
       ELSE IF 2 \notin failing THEN DrawOutcome(FALSE, <<a1, a2>>)
       ELSE IF 3 \notin failing THEN DrawOutcome(FALSE, <<a1, a2, a3>>)
       ELSE IF 4 \notin failing THEN DrawOutcome(FALSE, <<a1, a2, a3, a4>>)
       ELSE IF 5 \notin failing THEN DrawOutcome(FALSE, <<a1, a2, a3, a4, a5>>)
       ELSE DrawOutcome(TRUE, <<a1, a2, a3, a4, a5>>)

_draw_text_smart(text, fill, failing) ==
    LET cleaned == _clean_text(text)
    IN IF fill.kind = "str" /\ HexToRgbRaises(fill.v)
       THEN DrawOutcome(TRUE, <<>>)
       ELSE Cascade(cleaned, failing)

----------------------------------------------------------------------------
(* Avatar diameter of create_session_card: int(height * 0.495 * 0.67) for  *)
(* two photos, int(height * 0.495) otherwise, in exact integer arithmetic  *)
(* (equal to the float computation for every height up to 200000).         *)

speaker_size_NoReduction(height, nPhotos) == (height * 495) \div 1000

speaker_size(height, nPhotos) ==
    IF nPhotos = 2
    THEN (height * 495 * 67) \div 100000
    ELSE (height * 495) \div 1000

----------------------------------------------------------------------------
(* Images and the photo cache.  An image is its mode, one abstract pixel   *)
(* value and an alpha bit (0 = transparent; always 1 in a mode without     *)
(* alpha).  A cache file is absent, unreadable, or a JPEG.                 *)

Pixels == 0..2
White == CHOOSE p \in Pixels : \A q \in Pixels : q <= p

Image(mode, px, a) == [kind |-> "image", mode |-> mode, px |-> px, a |-> a]
NoPhoto == [kind |-> "none", mode |-> "-", px |-> 0, a |-> 0]

(* The decoded response bodies tried: every RGB pixel value, and one image *)
(* of each other mode (palette, greyscale, alpha opaque and transparent)   *)
Images ==
    {Image("RGB", p, 1) : p \in Pixels}
    \cup {Image("P", 1, 1), Image("L", 1, 1), Image("LA", 1, 1)}
    \cup {Image("RGBA", 1, a) : a \in {0, 1}}

NoFile == [kind |-> "none", mode |-> "-", px |-> 0]
CorruptFile == [kind |-> "corrupt", mode |-> "-", px |-> 0]
JpegFile(mode, px) == [kind |-> "jpeg", mode |-> mode, px |-> px]

(* JPEG quantisation at quality=95: lossy, many pixel values share a code *)
Quantise(px) == px - (px % 2)

JpegModes == {"RGB", "L"}

(* img.save(cache_path, "JPEG", quality=95) *)
JpegEncode(img) == JpegFile(img.mode, Quantise(img.px))

(* Image.open(cache_path) of a readable JPEG *)
JpegDecode(file) == Image(file.mode, file.px, 1)

(* Lines 112-118: RGBA and P images are pasted on a COLORS["text"] canvas *)
Flatten(img) ==
    IF img.mode \in {"RGBA", "P"}
    THEN IF img.mode = "RGBA"
         THEN Image("RGB", IF img.a = 1 THEN img.px ELSE White, 1)
         ELSE Image("RGB", img.px, 1)
    ELSE img

CacheFiles == {NoFile, CorruptFile}
              \cup {JpegEncode(Flatten(i)) : i \in {j \in Images : Flatten(j).mode \in JpegModes}}

URLs == {"u1", "u2"}

(* cache_path of a URL: sha256(url)[:16] + ".jpg", one file per URL *)
CachePath(url) == url

HttpFailures == {"neterr", "status", "notimage"}
SaveOutcomes == {"ok", "fail_removed", "fail_partial"}

(* The response: requests.get raises, raise_for_status raises, the body is *)
(* no image, or the body decodes to img                                    *)
HttpResponse(status, img) == [status |-> status, img |-> img]

HttpOutcomes == {HttpResponse(f, NoPhoto) : f \in HttpFailures}
                \cup {HttpResponse("ok", i) : i \in Images}

FetchEnvs == [unlinkOk : BOOLEAN, http : HttpOutcomes, save : SaveOutcomes]

CacheHit_Never(c, url) == FALSE

(* cache_path.exists() and Image.open(cache_path) succeeds *)
CacheHit(c, url) == c[CachePath(url)].kind = "jpeg"

CacheUnreadable(c, url) == c[CachePath(url)].kind = "corrupt"

FetchOutcome(ret, c, raised, hit, deleted, fetched) ==
    [ret |-> ret, cache |-> c, raised |-> raised, hit |-> hit,
     deleted |-> deleted, fetched |-> fetched]

(* Lines 120-122: img.save(cache_path, "JPEG", quality=95); return img.   *)
(* A failed save leaves no new file ("fail_removed": the file could not be *)
(* opened for writing, or was created and removed again) or a truncated    *)
(* one; a mode JPEG cannot hold makes the save fail.                       *)
SaveAndReturn(c, url, img, s) ==
    LET save == IF img.mode \notin JpegModes /\ s = "ok" THEN "fail_removed" ELSE s
    IN CASE save = "ok" ->
              [ret |-> img, cache |-> [c EXCEPT ![CachePath(url)] = JpegEncode(img)]]
         [] save = "fail_removed" ->
              [ret |-> NoPhoto, cache |-> c]
         [] save = "fail_partial" ->
              [ret |-> NoPhoto, cache |-> [c EXCEPT ![CachePath(url)] = CorruptFile]]

(* Lines 105-125: the download, with the cache as left by the cache check *)
Download(c, url, e, deleted) ==
    IF e.http.status \in HttpFailures
    THEN FetchOutcome(NoPhoto, c, FALSE, FALSE, deleted, TRUE)
    ELSE LET r == SaveAndReturn(c, url, Flatten(e.http.img), e.save)
         IN FetchOutcome(r.ret, r.cache, FALSE, FALSE, deleted, TRUE)

(* CardGenerator._download_speaker_photo *)
_download_speaker_photo(c, url, e) ==
    IF CacheHit(c, url)
    THEN FetchOutcome(JpegDecode(c[CachePath(url)]), c, FALSE, TRUE, FALSE, FALSE)
    ELSE IF CacheUnreadable(c, url)
         THEN IF e.unlinkOk
              THEN Download([c EXCEPT ![CachePath(url)] = NoFile], url, e, TRUE)
              ELSE FetchOutcome(NoPhoto, c, TRUE, FALSE, FALSE, FALSE)
         ELSE Download(c, url, e, FALSE)

----------------------------------------------------------------------------
(* Data: self.speakers (indexed by id) and the sessions of a run *)

Speaker(name, picture) == [name |-> name, picture |-> picture]

(* picture "" stands for a missing picture (None) *)
speakers ==
    [sid \in {"sp1", "sp2", "sp3"} |->
        CASE sid = "sp1" -> Speaker(<<"a">>, "pic1")
          [] sid = "sp2" -> Speaker(<<"b", "ACUTE">>, "pic2")
          [] sid = "sp3" -> Speaker(<<"1">>, "")]

SpeakerIds == {"sp1", "sp2", "sp3", "zz"}

(* f"https://cfp.pydata.org/{speaker.picture}" *)
PhotoUrl(picture) == IF picture = "pic1" THEN "u1" ELSE "u2"

IdNames == <<"s1", "s2", "s3", "s4", "s5">>

Session(id, title, speaker_ids) ==
    [id |-> id, title |-> title, speaker_ids |-> speaker_ids]

DefaultCardFile == "social_card_default.png"

(* OUTPUT_DIR / f"{session.id}.png" *)
CardFile(id) == id

----------------------------------------------------------------------------
(* create_session_card, in the order of its statements *)

(* Lines 267-268: not TEMPLATE_PATH.exists() raises FileNotFoundError *)
TemplateMissing(e) == ~e.templateExists

(* Lines 288-291: the speaker has an entry and a picture *)
HasPicture(sid) == sid \in DOMAIN speakers /\ speakers[sid].picture # ""

PhotoCandidates(session) == Take(session.speaker_ids, 2)

(* Lines 312-317: x_offset starts at speaker_margin_x = 40 and advances by *)
(* speaker_size + 20; y is speaker_margin_y = 50                           *)
PlaceAvatars_NoSpacing(processed_photos, size) ==
    [k \in 1..Len(processed_photos) |->
        [sid |-> processed_photos[k].sid, x |-> 40 + (k - 1) * size,
         y |-> 50, size |-> size]]

PlaceAvatars(processed_photos, size) ==
    [k \in 1..Len(processed_photos) |->
        [sid |-> processed_photos[k].sid, x |-> 40 + (k - 1) * (size + 20),
         y |-> 50, size |-> size]]

(* Lines 321-325: title wrapped at full_width = CARD_WIDTH - 80 *)
TitleLines(session, e) == _wrap_text(session.title, e.font, CARD_WIDTH - 80)

(* Lines 328-332: line_height = 60, at most 5 lines, bottom edge at 540 *)
title_y_start_Uncapped(title_lines) == 540 - Len(title_lines) * 60

title_y_start(title_lines) == 540 - Len(Take(title_lines, 5)) * 60

(* Lines 350-352: the first 3 ids, of which the known ones are kept *)
NameCandidates(session) ==
    SelectSeq(Take(session.speaker_ids, 3), LAMBDA sid : sid \in DOMAIN speakers)

speaker_names(session) ==
    LET known == NameCandidates(session)
    IN [k \in 1..Len(known) |-> speakers[known[k]].name]

(* Line 355: " • ".join(speaker_names) *)
speakers_text(session) == Join(<<" ", "BULLET", " ">>, speaker_names(session))

NoCard ==
    [size |-> 0, avatars |-> <<>>, lines |-> <<>>, y_start |-> 0,
     title |-> <<>>, named |-> FALSE, names |-> <<>>]

----------------------------------------------------------------------------
(* Direct calls of the pure functions and of the photo fetcher *)

NoWrap == [text |-> <<>>, font |-> 1, max_width |-> 1, done |-> FALSE, lines |-> <<>>]
NoDraw == [text |-> <<>>, fill |-> [kind |-> "rgb", v |-> <<255, 255, 255>>],
           done |-> FALSE, failing |-> {}, out |-> DrawOutcome(FALSE, <<>>)]
NoSize == [height |-> 1, nPhotos |-> 0, done |-> FALSE, size |-> 0]
NoPrev == [called |-> FALSE, url |-> "u1", ret |-> NoPhoto, raised |-> FALSE,
           fetched |-> FALSE, post |-> NoFile]
NoFetch == [called |-> FALSE, url |-> "u1", pre |-> NoFile, post |-> NoFile,
            ret |-> NoPhoto, raised |-> FALSE, hit |-> FALSE, deleted |-> FALSE,
            fetched |-> FALSE, tampered |-> FALSE, at |-> "idle", img |-> NoPhoto]

EmptyCache == [u \in URLs |-> NoFile]

PureIdle == wrapCall = NoWrap /\ drawCall = NoDraw /\ sizeCall = NoSize

FetchIdle == fetchCall = NoFetch /\ prevFetch = NoPrev /\ tampered = FALSE

RunIdle ==
    /\ env = [templateExists |-> TRUE, height |-> CARD_HEIGHT, font |-> 28]
    /\ sessions = <<>>
    /\ pc = "off"
    /\ idx = 0
    /\ photoK = 0
    /\ photos = <<>>
    /\ card = NoCard
    /\ files = {}
    /\ attempted = <<>>
    /\ outcomes = <<>>
    /\ defaultCalls = 0

WrapAlphabet == {"a", "b", " "}
WrapFonts == {1, 2}

InitWrap ==
    /\ \E t \in SeqsUpTo(WrapAlphabet, MaxWrapLen), f \in WrapFonts, w \in 1..MaxWidth :
          wrapCall = [NoWrap EXCEPT !.text = t, !.font = f, !.max_width = w]
    /\ drawCall = NoDraw /\ sizeCall = NoSize
    /\ cache = EmptyCache /\ FetchIdle /\ RunIdle

WrapCall ==
    /\ ~wrapCall.done
    /\ wrapCall' = [wrapCall EXCEPT
                      !.done = TRUE,
                      !.lines = _wrap_text(wrapCall.text, wrapCall.font, wrapCall.max_width)]
    /\ UNCHANGED <<drawCall, sizeCall, fetchVars, runVars>>

NextWrap == WrapCall

SpecWrap == InitWrap /\ [][NextWrap]_vars

DrawAlphabet == {"a", " ", "#", "EMOJI", "ACUTE"}

RgbFill(v) == [kind |-> "rgb", v |-> v]
StrFill(v) == [kind |-> "str", v |-> v]

DrawFills == {RgbFill(<<255, 255, 255>>), StrFill(TextColor),
              StrFill(<<"7", "f", "0", "0", "f", "f">>), StrFill(<<"#", "f", "f", "f">>),
              StrFill(<<"#", "7", "B", "3", "F", "9", "9">>),
              StrFill(<<"+", "f", " ", "a", "1", "TAB">>)}

InitDraw ==
    /\ \E t \in SeqsUpTo(DrawAlphabet, MaxDrawLen), f \in DrawFills :
          drawCall = [NoDraw EXCEPT !.text = t, !.fill = f]
    /\ wrapCall = NoWrap /\ sizeCall = NoSize
    /\ cache = EmptyCache /\ FetchIdle /\ RunIdle

DrawCall ==
    /\ ~drawCall.done
    /\ \E failing \in SUBSET Tiers :
          drawCall' = [drawCall EXCEPT
                         !.done = TRUE,
                         !.failing = failing,
                         !.out = _draw_text_smart(drawCall.text, drawCall.fill, failing)]
    /\ UNCHANGED <<wrapCall, sizeCall, fetchVars, runVars>>

NextDraw == DrawCall

SpecDraw == InitDraw /\ [][NextDraw]_vars

InitSize ==
    /\ \E h \in 1..MaxHeight, n \in 0..2 :
          sizeCall = [NoSize EXCEPT !.height = h, !.nPhotos = n]
    /\ wrapCall = NoWrap /\ drawCall = NoDraw
    /\ cache = EmptyCache /\ FetchIdle /\ RunIdle

SizeCall ==
    /\ ~sizeCall.done
    /\ sizeCall' = [sizeCall EXCEPT
                      !.done = TRUE,
                      !.size = speaker_size(sizeCall.height, sizeCall.nPhotos)]
    /\ UNCHANGED <<wrapCall, drawCall, fetchVars, runVars>>

NextSize == SizeCall

SpecSize == InitSize /\ [][NextSize]_vars

(* The cache directory outlives a run: any files may be there at the start *)
InitFetch ==
    /\ cache \in [URLs -> CacheFiles]
    /\ FetchIdle /\ PureIdle /\ RunIdle

(* One call of _download_speaker_photo, a step for each access to the     *)
(* cache file and for the network request: other programs (Tamper) may act *)
(* between the steps.  The call returns, or raises, in FetchReturn.        *)
FetchReturn(call, ret, raised, hit, c) ==
    /\ fetchCall' = [call EXCEPT !.called = TRUE, !.at = "idle", !.ret = ret,
                                 !.raised = raised, !.hit = hit, !.img = NoPhoto,
                                 !.post = c[CachePath(call.url)],
                                 !.tampered = tampered]
    /\ cache' = c
    /\ tampered' = FALSE
    /\ UNCHANGED <<prevFetch, pureVars, runVars>>

(* Line 99: cache_path.exists() *)
FetchBegin ==
    /\ fetchCall.at = "idle"
    /\ \E url \in URLs :
          fetchCall' = [NoFetch EXCEPT
                          !.url = url,
                          !.pre = cache[CachePath(url)],
                          !.at = IF cache[CachePath(url)].kind # "none"
                                 THEN "open" ELSE "get"]
    /\ prevFetch' = [called |-> fetchCall.called, url |-> fetchCall.url,
                     ret |-> fetchCall.ret, raised |-> fetchCall.raised,
                     fetched |-> fetchCall.fetched, post |-> fetchCall.post]
    /\ UNCHANGED <<cache, tampered, pureVars, runVars>>

(* Lines 100-102: return Image.open(cache_path), or the except branch *)
FetchOpen ==
    /\ fetchCall.at = "open"
    /\ LET seen == [fetchCall EXCEPT !.pre = cache[CachePath(fetchCall.url)]]
       IN IF CacheHit(cache, fetchCall.url)
          THEN FetchReturn(seen, JpegDecode(seen.pre), FALSE, TRUE, cache)
          ELSE /\ fetchCall' = [seen EXCEPT !.at = "unlink"]
               /\ UNCHANGED <<cache, prevFetch, tampered, pureVars, runVars>>

(* Line 103: cache_path.unlink(), which raises when the file cannot be    *)
(* removed or is no longer there                                           *)
FetchUnlink ==
    /\ fetchCall.at = "unlink"
    /\ \E unlinkOk \in BOOLEAN :
          IF unlinkOk /\ cache[CachePath(fetchCall.url)].kind # "none"
          THEN /\ fetchCall' = [fetchCall EXCEPT !.deleted = TRUE, !.at = "get"]
               /\ cache' = [cache EXCEPT ![CachePath(fetchCall.url)] = NoFile]
               /\ UNCHANGED <<prevFetch, tampered, pureVars, runVars>>
          ELSE FetchReturn(fetchCall, NoPhoto, TRUE, FALSE, cache)

(* Lines 107-118: the request, the decoding and the conversion to RGB *)
FetchGet ==
    /\ fetchCall.at = "get"
    /\ \E http \in HttpOutcomes :
          IF http.status \in HttpFailures
          THEN FetchReturn([fetchCall EXCEPT !.fetched = TRUE],
                           NoPhoto, FALSE, FALSE, cache)
          ELSE /\ fetchCall' = [fetchCall EXCEPT !.fetched = TRUE, !.at = "save",
                                                 !.img = Flatten(http.img)]
               /\ UNCHANGED <<cache, prevFetch, tampered, pureVars, runVars>>

(* Lines 121-125: the save, return img, or the except branch *)
FetchSave ==
    /\ fetchCall.at = "save"
    /\ \E s \in SaveOutcomes :
          LET r == SaveAndReturn(cache, fetchCall.url, fetchCall.img, s)
          IN FetchReturn(fetchCall, r.ret, FALSE, FALSE, r.cache)

(* Something other than the fetcher damages or removes a cache file *)
Tamper ==
    /\ \E url \in URLs, f \in {NoFile, CorruptFile} :
          /\ cache[CachePath(url)] # f
          /\ cache' = [cache EXCEPT ![CachePath(url)] = f]
    /\ tampered' = TRUE
    /\ UNCHANGED <<fetchCall, prevFetch, pureVars, runVars>>

NextFetch == FetchBegin \/ FetchOpen \/ FetchUnlink \/ FetchGet \/ FetchSave \/ Tamper

SpecFetch == InitFetch /\ [][NextFetch]_vars

----------------------------------------------------------------------------
(* generate_all_cards: the loop over self.sessions, create_session_card    *)
(* step by step inside the try of lines 394-402, then the default card.    *)
(* pc is the position in the run, idx the number of sessions finished.     *)

Cur == sessions[idx + 1]

SessionFails_Aborts(cause) ==
    /\ outcomes' = Append(outcomes, cause)
    /\ idx' = idx + 1
    /\ pc' = "done"
    /\ photoK' = 0
    /\ photos' = <<>>
    /\ card' = NoCard

(* Lines 399-402: except Exception logs the session with the exception    *)
(* (here: the step that raised) and the loop goes on                       *)
SessionFails(cause) ==
    /\ outcomes' = Append(outcomes, cause)
    /\ idx' = idx + 1
    /\ pc' = "loop"
    /\ photoK' = 0
    /\ photos' = <<>>
    /\ card' = NoCard

(* Line 393 and lines 264-280: the next session is taken up *)
BeginSession ==
    /\ pc = "loop"
    /\ idx < Len(sessions)
    /\ attempted' = Append(attempted, Cur.id)
    /\ IF TemplateMissing(env)
       THEN SessionFails("template")
       ELSE /\ pc' = "photos"
            /\ photoK' = 0
            /\ photos' = <<>>
            /\ card' = NoCard
            /\ UNCHANGED <<outcomes, idx>>
    /\ UNCHANGED <<env, sessions, files, defaultCalls, cache, fetchCall, prevFetch,
                   tampered, pureVars>>

RunImages == {Image("RGB", 1, 1), Image("RGBA", 1, 0)}

RunFetchEnvs ==
    [unlinkOk : BOOLEAN,
     http : {HttpResponse("neterr", NoPhoto)} \cup {HttpResponse("ok", i) : i \in RunImages},
     save : SaveOutcomes]

(* Lines 288-296, one iteration for a speaker with a picture *)
FetchPhoto ==
    /\ pc = "photos"
    /\ photoK < Len(PhotoCandidates(Cur))
    /\ LET sid == PhotoCandidates(Cur)[photoK + 1] IN
       /\ HasPicture(sid)
       /\ \E e \in RunFetchEnvs :
            LET r == _download_speaker_photo(cache, PhotoUrl(speakers[sid].picture), e)
            IN /\ cache' = r.cache
               /\ IF r.raised
                  THEN SessionFails("photo")
                  ELSE /\ photos' = IF r.ret.kind = "image"
                                    THEN Append(photos, [photo |-> r.ret, sid |-> sid])
                                    ELSE photos
                       /\ photoK' = photoK + 1
                       /\ UNCHANGED <<pc, idx, outcomes, card>>
    /\ UNCHANGED <<env, sessions, files, attempted, defaultCalls, fetchCall, prevFetch,
                   tampered, pureVars>>

(* Lines 288-291, one iteration for an unknown speaker or one without picture *)
SkipPhoto ==
    /\ pc = "photos"
    /\ photoK < Len(PhotoCandidates(Cur))
    /\ ~HasPicture(PhotoCandidates(Cur)[photoK + 1])
    /\ photoK' = photoK + 1
    /\ UNCHANGED <<env, sessions, pc, idx, photos, card, files, attempted, outcomes,
                   defaultCalls, fetchVars, pureVars>>

(* Lines 298-332: size, photos processed and pasted, title wrapped and     *)
(* positioned.  _process_speaker_photo loads the pixels of a photo and may *)
(* raise on a file that opened but does not decode.                        *)
LayOut ==
    /\ pc = "photos"
    /\ photoK = Len(PhotoCandidates(Cur))
    /\ \E processRaises \in {FALSE} \cup {photos # <<>>} :
          IF processRaises
          THEN SessionFails("process")
          ELSE /\ LET diameter == speaker_size(env.height, Len(photos))
                      title_lines == TitleLines(Cur, env)
                  IN card' = [NoCard EXCEPT
                                !.size = diameter,
                                !.avatars = PlaceAvatars(photos, diameter),
                                !.lines = title_lines,
                                !.y_start = title_y_start(title_lines)]
               /\ pc' = "title"
               /\ UNCHANGED <<idx, photoK, photos, outcomes>>
    /\ UNCHANGED <<env, sessions, files, attempted, defaultCalls, fetchVars, pureVars>>

(* Lines 336-345, one iteration: a title line drawn by _draw_text_smart *)
DrawTitleLine ==
    /\ pc = "title"
    /\ Len(card.title) < Len(Take(card.lines, 5))
    /\ \E failing \in SUBSET Tiers :
          LET i == Len(card.title)
              r == _draw_text_smart(card.lines[i + 1], StrFill(TextColor), failing)
          IN IF r.raised
             THEN SessionFails("title")
             ELSE /\ card' = [card EXCEPT !.title = Append(@,
                                 [x |-> 40, y |-> card.y_start + 60 * i,
                                  text |-> r.attempts[Len(r.attempts)].text,
                                  tier |-> r.drawn])]
                  /\ UNCHANGED <<pc, idx, outcomes, photoK, photos>>
    /\ UNCHANGED <<env, sessions, files, attempted, defaultCalls, fetchVars, pureVars>>

(* Lines 348 and 354: there are ids, and at least one of them has a name *)
NameDrawn(session) == session.speaker_ids # <<>> /\ speaker_names(session) # <<>>

(* Lines 347-367: the name line, drawn by draw.text itself, then return *)
DrawNames ==
    /\ pc = "title"
    /\ Len(card.title) = Len(Take(card.lines, 5))
    /\ IF NameDrawn(Cur)
       THEN \E drawRaises \in BOOLEAN :
               IF drawRaises
               THEN SessionFails("names")
               ELSE /\ card' = [card EXCEPT !.named = TRUE,
                                            !.names = speakers_text(Cur)]
                    /\ pc' = "save"
                    /\ UNCHANGED <<idx, outcomes, photoK, photos>>
       ELSE /\ pc' = "save"
            /\ UNCHANGED <<card, idx, outcomes, photoK, photos>>
    /\ UNCHANGED <<env, sessions, files, attempted, defaultCalls, fetchVars, pureVars>>

File(name, content) == [name |-> name, content |-> content]

(* Lines 396-398: card.save, which may raise like any write *)
SaveCard ==
    /\ pc = "save"
    /\ \E saved \in BOOLEAN :
          IF saved
          THEN /\ files' = files \cup {File(CardFile(Cur.id), "session")}
               /\ outcomes' = Append(outcomes, "ok")
          ELSE /\ files' = files
               /\ outcomes' = Append(outcomes, "save")
    /\ idx' = idx + 1
    /\ pc' = "loop"
    /\ photoK' = 0
    /\ photos' = <<>>
    /\ card' = NoCard
    /\ UNCHANGED <<env, sessions, attempted, defaultCalls, fetchVars, pureVars>>

(* create_default_card: the template as it is, or the solid-colour card *)
create_default_card(e) == IF e.templateExists THEN "template" ELSE "fallback"

(* Lines 404-414: the default card, after the loop *)
DefaultCard ==
    /\ pc = "loop"
    /\ idx = Len(sessions)
    /\ defaultCalls' = defaultCalls + 1
    /\ \E saved \in BOOLEAN :
          files' = IF saved
                   THEN files \cup {File(DefaultCardFile, create_default_card(env))}
                   ELSE files
    /\ pc' = "done"
    /\ UNCHANGED <<env, sessions, idx, photoK, photos, card, attempted, outcomes,
                   fetchVars, pureVars>>

Next ==
    \/ BeginSession
    \/ FetchPhoto
    \/ SkipPhoto
    \/ LayOut
    \/ DrawTitleLine
    \/ DrawNames
    \/ SaveCard
    \/ DefaultCard

----------------------------------------------------------------------------
(* Specifications of a run.  CardGenerator.__init__ loads the sessions,    *)
(* the speakers and the fonts; the template file and the cache directory   *)
(* are whatever the file system holds.                                     *)

Content(title, speaker_ids) == [title |-> title, speaker_ids |-> speaker_ids]

MkSessions(contents) ==
    [k \in 1..Len(contents) |->
        Session(IdNames[k], contents[k].title, contents[k].speaker_ids)]

RunStart ==
    /\ pc = "loop"
    /\ idx = 0
    /\ photoK = 0
    /\ photos = <<>>
    /\ card = NoCard
    /\ files = {}
    /\ attempted = <<>>
    /\ outcomes = <<>>
    /\ defaultCalls = 0

RunContents == {Content(<<"a">>, <<>>), Content(<<"a", "EMOJI">>, <<"sp1">>),
                Content(<<"b">>, <<"zz", "sp3">>)}

RunCaches == {EmptyCache, [EmptyCache EXCEPT !["u1"] = CorruptFile]}

(* A batch over up to MaxSessions sessions, with or without the template *)
Init ==
    /\ \E contents \in SeqsUpTo(RunContents, MaxSessions) : sessions = MkSessions(contents)
    /\ \E t \in BOOLEAN : env = [templateExists |-> t, height |-> CARD_HEIGHT, font |-> 28]
    /\ cache \in RunCaches
    /\ RunStart /\ FetchIdle /\ PureIdle

Spec == Init /\ [][Next]_vars

CardCaches == [URLs -> {NoFile, CorruptFile, JpegFile("RGB", 0)}]

(* One session with any speaker_ids of up to MaxIds ids, template present *)
InitCard ==
    /\ \E ids \in SeqsUpTo(SpeakerIds, MaxIds) :
          sessions = MkSessions(<<Content(<<"a">>, ids)>>)
    /\ env = [templateExists |-> TRUE, height |-> CARD_HEIGHT, font |-> 28]
    /\ cache \in CardCaches
    /\ RunStart /\ FetchIdle /\ PureIdle

SpecCard == InitCard /\ [][Next]_vars

(* A title of k one-letter words; with the wide font no two words share a  *)
(* line (a glyph then stands for a run of characters of a real title)      *)
TitleOf(k) == Join(<<" ">>, [i \in 1..k |-> <<"a">>])

TitleTexts == {TitleOf(k) : k \in 0..MaxTitleWords}
              \cup {<<"a", "TAB", "b", "EMOJI", " ", "a">>}

TitleFonts == {28, 600}

TitleInputs == {Content(t, <<>>) : t \in TitleTexts}
               \cup {Content(<<"a", " ", "b">>, <<"zz", "sp1">>)}

(* One session with a title of up to MaxTitleWords words, template present *)
InitTitle ==
    /\ \E c \in TitleInputs : sessions = MkSessions(<<c>>)
    /\ \E f \in TitleFonts :
          env = [templateExists |-> TRUE, height |-> CARD_HEIGHT, font |-> f]
    /\ cache = EmptyCache
    /\ RunStart /\ FetchIdle /\ PureIdle

SpecTitle == InitTitle /\ [][Next]_vars

----------------------------------------------------------------------------
(* Properties *)

SessionFilesWritten == {f \in files : f.content = "session"}

(* C1: with the template missing the run aborts at once -- no   *)
(* card file of any kind is written and no session after the first one is  *)
(* taken up.                                                                *)
C1_RunAborts ==
    ~env.templateExists => files = {} /\ Len(attempted) <= 1

(* C2: a failure inside one session stays in that session -- the sessions  *)
(* are taken up one by one in input order, each exactly once and each with  *)
(* exactly one logged outcome, and the default card is generated exactly    *)
(* once, after the last session, however many sessions failed.              *)
C2_EverySessionOnceThenDefault ==
    /\ attempted = [k \in 1..Len(attempted) |-> sessions[k].id]
    /\ Len(outcomes) = idx
    /\ Len(attempted) = IF pc \in {"loop", "done"} THEN idx ELSE idx + 1
    /\ defaultCalls = IF pc = "done" THEN 1 ELSE 0
    /\ pc = "done" => idx = Len(sessions)

C2_Witness ==
    /\ pc = "done"
    /\ Len(sessions) = 3
    /\ outcomes[1] # "ok"
    /\ outcomes[2] = "ok"
    /\ outcomes[3] # "ok"
    /\ defaultCalls = 1

(* C3: _download_speaker_photo returns an image or nothing and never       *)
(* raises, whatever the cache holds and whatever the later steps do.        *)
C3_NeverRaises ==
    fetchCall.called =>
        /\ ~fetchCall.raised
        /\ fetchCall.ret.kind \in {"image", "none"}

(* C4: a readable cache entry is returned without a network request and    *)
(* without a change of the cache; an unreadable entry is deleted and the    *)
(* photo fetched from the network in the same call.                         *)
C4_HitOrHeal ==
    fetchCall.called =>
        /\ fetchCall.pre.kind = "jpeg" =>
              /\ fetchCall.ret = JpegDecode(fetchCall.pre)
              /\ ~fetchCall.fetched
              /\ fetchCall.post = fetchCall.pre
        /\ fetchCall.pre.kind = "corrupt" =>
              /\ fetchCall.deleted
              /\ fetchCall.fetched
              /\ ~fetchCall.hit

(* Two requests of one URL in a row: the first fetched and returned an     *)
(* image (and so stored it), nothing touched the cache before the second.   *)
TwoInARow ==
    /\ fetchCall.called
    /\ prevFetch.called
    /\ prevFetch.url = fetchCall.url
    /\ prevFetch.fetched
    /\ prevFetch.ret.kind = "image"
    /\ ~fetchCall.tampered

(* C5, as stated: both requests return identical image data. *)
C5_ByteIdentical == TwoInARow => fetchCall.ret = prevFetch.ret

(* C5, amended: the second request is a cache hit -- no network request,   *)
(* cache unchanged -- and returns what the stored file decodes to: the      *)
(* JPEG (quality 95) encoding of the image the first request returned.      *)
C5_SecondIsLossyCopy ==
    TwoInARow =>
        /\ fetchCall.hit
        /\ ~fetchCall.fetched
        /\ fetchCall.post = fetchCall.pre
        /\ fetchCall.pre = prevFetch.post
        /\ fetchCall.ret.mode = prevFetch.ret.mode
        /\ fetchCall.ret.px = prevFetch.ret.px - (prevFetch.ret.px % 2)

C5_Witness ==
    /\ TwoInARow
    /\ fetchCall.hit
    /\ fetchCall.ret # prevFetch.ret

IsSingleWord(line) == Len(Split(line)) = 1

(* C6: every line _wrap_text returns is at most max_width wide, unless it  *)
(* is one single word that is itself wider than max_width.                  *)
C6_LinesWithinBudget ==
    wrapCall.done =>
        \A k \in 1..Len(wrapCall.lines) :
            LET line == wrapCall.lines[k] IN
            \/ TextWidth(wrapCall.font, line) <= wrapCall.max_width
            \/ /\ IsSingleWord(line)
               /\ TextWidth(wrapCall.font, Split(line)[1]) > wrapCall.max_width

C6_Witness ==
    /\ wrapCall.done
    /\ \E k \in 1..Len(wrapCall.lines) :
          /\ Len(Split(wrapCall.lines[k])) >= 2
          /\ TextWidth(wrapCall.font, wrapCall.lines[k]) = wrapCall.max_width
    /\ \E k \in 1..Len(wrapCall.lines) :
          /\ IsSingleWord(wrapCall.lines[k])
          /\ TextWidth(wrapCall.font, wrapCall.lines[k]) > wrapCall.max_width

(* C7: _draw_text_smart never raises, for a colour that is a channel       *)
(* triple or a six-digit hex string, whichever draw attempts fail.          *)
C7_NeverRaises ==
    (drawCall.done /\ (drawCall.fill.kind = "str" => Len(drawCall.fill.v) >= 6))
        => ~drawCall.out.raised

Known(sid) == sid \in DOMAIN speakers

Resolvable(session) == SelectSeq(session.speaker_ids, Known)

NamesOf(sids) == Join(<<" ", "BULLET", " ">>, [k \in 1..Len(sids) |-> speakers[sids[k]].name])

(* C8: a card that create_session_card returns has a name line whenever    *)
(* some id of speaker_ids resolves, the line being the names of the first   *)
(* (up to 3) resolvable speakers joined by the separator; and has none      *)
(* when no id resolves.                                                     *)
C8_NameLine ==
    pc = "save" =>
        IF Resolvable(Cur) # <<>>
        THEN /\ card.named
             /\ \E n \in 1..3 : card.names = NamesOf(Take(Resolvable(Cur), n))
        ELSE ~card.named

(* C9, as stated: the diameter is int(0.495 * 0.67 * height) for two       *)
(* photos and int(0.495 * height) otherwise, and the two-photo diameter is  *)
(* strictly smaller than the one-photo diameter at every height.            *)
C9_StrictlySmaller ==
    sizeCall.done =>
        /\ sizeCall.size = IF sizeCall.nPhotos = 2
                           THEN (sizeCall.height * 33165) \div 100000
                           ELSE (sizeCall.height * 495) \div 1000
        /\ sizeCall.nPhotos = 2 => sizeCall.size < (sizeCall.height * 495) \div 1000

(* C9, amended: the same two values; the two-photo diameter is never       *)
(* larger than the one-photo diameter and strictly smaller from height 7    *)
(* on.                                                                      *)
C9_SmallerFromHeight7 ==
    sizeCall.done =>
        /\ sizeCall.size = IF sizeCall.nPhotos = 2
                           THEN (sizeCall.height * 33165) \div 100000
                           ELSE (sizeCall.height * 495) \div 1000
        /\ sizeCall.nPhotos = 2 =>
              /\ sizeCall.size <= (sizeCall.height * 495) \div 1000
              /\ sizeCall.height >= 7 => sizeCall.size < (sizeCall.height * 495) \div 1000

C9_Witness ==
    /\ sizeCall.done
    /\ sizeCall.nPhotos = 2
    /\ sizeCall.height = CARD_HEIGHT
    /\ sizeCall.size = 208

(* C10: no session is given up because a text could not be drawn, be it a  *)
(* title line or the name line.                                             *)
C10_DrawFailureContained ==
    \A k \in 1..Len(outcomes) : outcomes[k] \notin {"title", "names"}

(* C11: within one call the tiers are attempted in the order 1 to 5, tier  *)
(* k+1 only after tier k raised, none after a tier completed, and nothing   *)
(* after tier 5: at most one draw completes per call.                       *)
C11_TiersInOrder ==
    drawCall.done =>
        LET at == drawCall.out.attempts
            n == Len(at)
            completed == {k \in 1..n : at[k].tier \notin drawCall.failing}
        IN /\ n <= 5
           /\ \A k \in 1..n : at[k].tier = k
           /\ \A k \in 1..n : k < n => k \in drawCall.failing
           /\ \A k \in completed : k = n /\ drawCall.out.drawn = k
           /\ Cardinality(completed) <= 1
           /\ (n >= 1 /\ n < 5) => n \notin drawCall.failing
           /\ drawCall.out.raised <=> (n = 0 \/ (n = 5 /\ 5 \in drawCall.failing))
           /\ n = 0 => drawCall.fill.kind = "str" /\ _hex_to_rgb(drawCall.fill.v).raised

C11_Witness ==
    /\ drawCall.done
    /\ drawCall.failing = {1, 2, 4, 5}
    /\ Len(drawCall.out.attempts) = 3
    /\ drawCall.out.drawn = 3
    /\ ~drawCall.out.raised

CardLaidOut == pc \in {"title", "save"}

(* C12: a card carries at most 2 avatars; the k-th one (k = 0, 1) is at    *)
(* x = 40 + k * (diameter + 20); they are the photos obtained for the       *)
(* first two speaker_ids, left to right in that order, and a speaker        *)
(* without an obtained photo takes no slot: the avatars are packed from     *)
(* the left margin.                                                         *)
C12_AvatarsPacked ==
    CardLaidOut =>
        LET av == card.avatars
            ids == Cur.speaker_ids
            n == Len(av)
        IN /\ n <= 2
           /\ n = Len(photos)
           /\ \A k \in 1..n :
                 /\ av[k].x = 40 + (k - 1) * (card.size + 20)
                 /\ av[k].size = card.size
                 /\ av[k].sid = photos[k].sid
                 /\ HasPicture(av[k].sid)
           /\ n = 2 => Len(ids) >= 2 /\ av[1].sid = ids[1] /\ av[2].sid = ids[2]
           /\ n = 1 => \E j \in 1..Min(2, Len(ids)) : av[1].sid = ids[j]

C12_Witness ==
    /\ pc = "save"
    /\ Len(Cur.speaker_ids) >= 2
    /\ Cur.speaker_ids[1] = "sp1"
    /\ Cur.speaker_ids[2] = "sp2"
    /\ Len(card.avatars) = 1
    /\ card.avatars[1].sid = "sp2"
    /\ card.avatars[1].x = 40

(* C13: of a title wrapped into n lines the first min(n, 5) are drawn, in  *)
(* order, line i (from 0) at y = 540 - 60 * min(n, 5) + 60 * i; the rest    *)
(* are dropped.  The block ends at y = 540 and no line is drawn at or       *)
(* below y = 540 or above y = 240.  All min(n, 5) lines are there when      *)
(* create_session_card returns.                                             *)
C13_TitleBlock ==
    CardLaidOut =>
        LET n == Len(card.lines)
            m == Min(n, 5)
            drawn == card.title
        IN /\ card.lines = _wrap_text(Cur.title, env.font, 1120)
           /\ Len(drawn) <= m
           /\ pc = "save" => Len(drawn) = m
           /\ \A i \in 1..Len(drawn) :
                 /\ drawn[i].x = 40
                 /\ drawn[i].y = 540 - 60 * m + 60 * (i - 1)
                 /\ drawn[i].y >= 240
                 /\ drawn[i].y + 60 <= 540
                 /\ drawn[i].tier \in {1, 2} => drawn[i].text = _clean_text(card.lines[i])
           /\ (pc = "save" /\ m >= 1) => drawn[m].y + 60 = 540

C13_Witness ==
    /\ pc = "save"
    /\ Len(card.lines) = 7
    /\ Len(card.title) = 5
    /\ card.title[1].y = 240
    /\ card.title[5].y = 480
    /\ card.title[5].text = <<"a">>

====
